---- MODULE Spec2Model ----
(***************************************************************************)
(* Model of train.py: a top-level script that loads a pretrained embedding *)
(* model, loads five training and four evaluation datasets, builds the     *)
(* dataset and loss dictionaries, constructs the training arguments and    *)
(* the trainer, trains, and saves the model.                               *)
(*                                                                         *)
(* The script is one sequential thread of module-level statements.  Every  *)
(* statement that calls into a library may return or raise; there is no    *)
(* try/except in the file, so a raised exception ends the interpreter.     *)
(* What the libraries do inside a call is not modelled: a call is one      *)
(* atomic step whose only modelled effects are the bindings the script     *)
(* makes from its result.                                                  *)
(***************************************************************************)
EXTENDS Integers, Sequences, FiniteSets, TLC

VARIABLES
    pc,             \* the statement about to run, or "done" / "aborted"
    defined,        \* module globals bound so far
    remote,         \* rows held by each remote split (the environment)
    loaded,         \* dataset variable -> the dataset load_dataset returned
    loss_objs,      \* loss variable -> the loss object constructed
    train_dataset,  \* key -> dataset (train.py:22-28)
    eval_dataset,   \* key -> dataset (train.py:41-46)
    losses,         \* key -> loss object (train.py:58-64)
    args,           \* the training arguments (train.py:65-84)
    trained,        \* trainer.train() has returned
    saved,          \* directories written by model.save_pretrained
    exc             \* statement whose exception propagated, or "none"

vars == <<pc, defined, remote, loaded, loss_objs, train_dataset, eval_dataset,
          losses, args, trained, saved, exc>>

----------------------------------------------------------------------------
(* Bounds on the environment: a remote split holds k * LenStep rows.       *)
MaxLenSteps == 3
LenStep == 5250
Lens == {k * LenStep : k \in 1..MaxLenSteps}

----------------------------------------------------------------------------
ProgramSaveBeforeTrain ==
    << "model",
       "all_nli_pair_train", "stsb_pair_score_train", "quora_pair_train",
       "natural_questions_train", "rules_synthetic",
       "train_dataset",
       "all_nli_triplet_dev", "stsb_pair_score_dev", "quora_pair_dev",
       "natural_questions_dev",
       "eval_dataset",
       "mnrl_loss", "softmax_loss", "cosent_loss",
       "losses",
       "args",
       "trainer",
       "save",
       "train" >>

(* The statements of the script, in file order. *)
Program ==
    << "model",
       "all_nli_pair_train", "stsb_pair_score_train", "quora_pair_train",
       "natural_questions_train", "rules_synthetic",
       "train_dataset",
       "all_nli_triplet_dev", "stsb_pair_score_dev", "quora_pair_dev",
       "natural_questions_dev",
       "eval_dataset",
       "mnrl_loss", "softmax_loss", "cosent_loss",
       "losses",
       "args",
       "trainer",
       "train",
       "save" >>

Stmts == {Program[i] : i \in 1..Len(Program)}

Index(s) == CHOOSE i \in 1..Len(Program) : Program[i] = s

(* Control after statement s returns normally. *)
NextStmt(s) ==
    IF Index(s) = Len(Program) THEN "done" ELSE Program[Index(s) + 1]

(* The model identifier passed to SentenceTransformer. *)
ModelName == "Qwen/Qwen3-Embedding-8B"

(* The arguments of each load_dataset call.  A split expression            *)
(* "train[a:b]" is kept as its parts; sliced = FALSE is a whole split.     *)
LoadCall(v) ==
    CASE v = "all_nli_pair_train" ->
           [path |-> "sentence-transformers/amazon-qa", name |-> "pair",
            split |-> "train", sliced |-> TRUE, from |-> 0, to |-> 10000]
      [] v = "stsb_pair_score_train" ->
           [path |-> "sentence-transformers/stsb", name |-> "None",
            split |-> "train", sliced |-> TRUE, from |-> 0, to |-> 10000]
      [] v = "quora_pair_train" ->
           [path |-> "sentence-transformers/quora-duplicates", name |-> "pair",
            split |-> "train", sliced |-> TRUE, from |-> 0, to |-> 10000]
      [] v = "natural_questions_train" ->
           [path |-> "sentence-transformers/natural-questions", name |-> "None",
            split |-> "train", sliced |-> TRUE, from |-> 0, to |-> 10000]
      [] v = "rules_synthetic" ->
           [path |-> "graham-sh/frc-rules-synthetic", name |-> "None",
            split |-> "train", sliced |-> TRUE, from |-> 0, to |-> 10000]
      [] v = "all_nli_triplet_dev" ->
           [path |-> "sentence-transformers/all-nli", name |-> "triplet",
            split |-> "dev", sliced |-> FALSE, from |-> 0, to |-> 0]
      [] v = "stsb_pair_score_dev" ->
           [path |-> "sentence-transformers/stsb", name |-> "None",
            split |-> "validation", sliced |-> FALSE, from |-> 0, to |-> 0]
      [] v = "quora_pair_dev" ->
           [path |-> "sentence-transformers/quora-duplicates", name |-> "pair",
            split |-> "train", sliced |-> TRUE, from |-> 10000, to |-> 11000]
      [] v = "natural_questions_dev" ->
           [path |-> "sentence-transformers/natural-questions", name |-> "None",
            split |-> "train", sliced |-> TRUE, from |-> 10000, to |-> 11000]

TrainVars == {"all_nli_pair_train", "stsb_pair_score_train", "quora_pair_train",
              "natural_questions_train", "rules_synthetic"}
EvalVars  == {"all_nli_triplet_dev", "stsb_pair_score_dev", "quora_pair_dev",
              "natural_questions_dev"}
DatasetVars == TrainVars \cup EvalVars

(* The remote split a call reads. *)
SplitOf(c) == <<c.path, c.name, c.split>>
RemoteSplits == {SplitOf(LoadCall(v)) : v \in DatasetVars}

Min(a, b) == IF a <= b THEN a ELSE b

(* Row range [lo, hi) selected by a split expression from a split of n     *)
(* rows: "split[a:b]" follows slice notation, first row included, last     *)
(* excluded, both clamped to the rows that exist.                          *)
Resolve(c, n) ==
    [path |-> c.path, name |-> c.name, split |-> c.split,
     lo |-> IF c.sliced THEN Min(c.from, n) ELSE 0,
     hi |-> IF c.sliced THEN Min(c.to, n) ELSE n]

RowsInclusive(d) == d.lo .. d.hi

(* Row indices of the remote split held by a loaded dataset. *)
Rows(d) == d.lo .. (d.hi - 1)

----------------------------------------------------------------------------
(* The dictionary literals: key -> the variable written at that key. *)
TrainDatasetItems ==
    ("all-nli-pair" :> "all_nli_pair_train") @@
    ("stsb" :> "stsb_pair_score_train") @@
    ("quora" :> "quora_pair_train") @@
    ("natural-questions" :> "natural_questions_train") @@
    ("rules-synthetic" :> "rules_synthetic")

EvalDatasetItems ==
    ("all-nli-triplet" :> "all_nli_triplet_dev") @@
    ("stsb" :> "stsb_pair_score_dev") @@
    ("quora" :> "quora_pair_dev") @@
    ("natural-questions" :> "natural_questions_dev")

LossesItemsMissingKey ==
    ("all-nli-pair" :> "mnrl_loss") @@
    ("stsb" :> "cosent_loss") @@
    ("quora" :> "mnrl_loss") @@
    ("natural-questions" :> "mnrl_loss")

LossesItemsExtraKey ==
    ("all-nli-pair" :> "mnrl_loss") @@
    ("all-nli-pair-class" :> "softmax_loss") @@
    ("stsb" :> "cosent_loss") @@
    ("quora" :> "mnrl_loss") @@
    ("natural-questions" :> "mnrl_loss") @@
    ("rules-synthetic" :> "mnrl_loss")

LossesItems ==
    ("all-nli-pair" :> "mnrl_loss") @@
    ("stsb" :> "cosent_loss") @@
    ("quora" :> "mnrl_loss") @@
    ("natural-questions" :> "mnrl_loss") @@
    ("rules-synthetic" :> "mnrl_loss")

Range(f) == {f[k] : k \in DOMAIN f}

(* The loss class each loss variable is constructed from. *)
LossVars == {"mnrl_loss", "softmax_loss", "cosent_loss"}
LossClass(v) ==
    CASE v = "mnrl_loss"    -> "MultipleNegativesRankingLoss"
      [] v = "softmax_loss" -> "SoftmaxLoss"
      [] v = "cosent_loss"  -> "CoSENTLoss"

(* The keyword arguments of SentenceTransformerTrainingArguments. *)
TrainingArguments ==
    [output_dir |-> "models/mpnet-base-all-nli-triplet",
     num_train_epochs |-> 1,
     per_device_train_batch_size |-> 16,
     per_device_eval_batch_size |-> 16,
     warmup_ratio_percent |-> 10,
     fp16 |-> TRUE,
     bf16 |-> FALSE,
     batch_sampler |-> "NO_DUPLICATES",
     eval_strategy |-> "steps",
     eval_steps |-> 100,
     save_strategy |-> "steps",
     save_steps |-> 100,
     save_total_limit |-> 2,
     logging_steps |-> 100,
     run_name |-> "mpnet-base-all-nli-triplet"]

SavePath == "qwen-trained"

(* Module globals a statement reads. *)
Uses(s) ==
    CASE s = "train_dataset" -> Range(TrainDatasetItems)
      [] s = "eval_dataset"  -> Range(EvalDatasetItems)
      [] s \in LossVars      -> {"model"}
      [] s = "losses"        -> Range(LossesItems)
      [] s = "trainer"       -> {"model", "train_dataset", "eval_dataset",
                                 "losses", "args"}
      [] s = "train"         -> {"trainer"}
      [] s = "save"          -> {"model"}
      [] OTHER               -> {}

(* Statements that call into a library, which may raise. *)
Calls(s) == s \notin {"train_dataset", "eval_dataset", "losses"}

(* Control after an exception raised at statement s reaches the top level  *)
(* of the module: nothing catches it, the interpreter exits.               *)
OnRaiseSwallowed(s) == NextStmt(s)

OnRaise(s) == "aborted"

----------------------------------------------------------------------------
EmptyMap == [k \in {} |-> "none"]
NoArgs == [output_dir |-> "none"]

Init ==
    /\ pc = Program[1]
    /\ defined = {}
    /\ remote \in [RemoteSplits -> Lens]
    /\ loaded = EmptyMap
    /\ loss_objs = EmptyMap
    /\ train_dataset = EmptyMap
    /\ eval_dataset = EmptyMap
    /\ losses = EmptyMap
    /\ args = NoArgs
    /\ trained = FALSE
    /\ saved = {}
    /\ exc = "none"

(* A statement runs to its end only if every name it reads is bound. *)
Runs(s) == pc = s /\ Uses(s) \subseteq defined

(* model = SentenceTransformer(...) *)
LoadModel ==
    /\ Runs("model")
    /\ defined' = defined \cup {"model"}
    /\ pc' = NextStmt(pc)
    /\ UNCHANGED <<remote, loaded, loss_objs, train_dataset, eval_dataset,
                   losses, args, trained, saved, exc>>

(* v = load_dataset(path, name, split=...) *)
LoadDataset(v) ==
    /\ Runs(v)
    /\ loaded' = loaded @@ (v :> Resolve(LoadCall(v), remote[SplitOf(LoadCall(v))]))
    /\ defined' = defined \cup {v}
    /\ pc' = NextStmt(pc)
    /\ UNCHANGED <<remote, loss_objs, train_dataset, eval_dataset, losses,
                   args, trained, saved, exc>>

(* train_dataset = {...} *)
BuildTrainDataset ==
    /\ Runs("train_dataset")
    /\ train_dataset' = [k \in DOMAIN TrainDatasetItems |-> loaded[TrainDatasetItems[k]]]
    /\ defined' = defined \cup {"train_dataset"}
    /\ pc' = NextStmt(pc)
    /\ UNCHANGED <<remote, loaded, loss_objs, eval_dataset, losses, args,
                   trained, saved, exc>>

(* eval_dataset = {...} *)
BuildEvalDataset ==
    /\ Runs("eval_dataset")
    /\ eval_dataset' = [k \in DOMAIN EvalDatasetItems |-> loaded[EvalDatasetItems[k]]]
    /\ defined' = defined \cup {"eval_dataset"}
    /\ pc' = NextStmt(pc)
    /\ UNCHANGED <<remote, loaded, loss_objs, train_dataset, losses, args,
                   trained, saved, exc>>

(* v = <LossClass>(model) *)
ConstructLoss(v) ==
    /\ Runs(v)
    /\ loss_objs' = loss_objs @@ (v :> [class |-> LossClass(v), model |-> ModelName])
    /\ defined' = defined \cup {v}
    /\ pc' = NextStmt(pc)
    /\ UNCHANGED <<remote, loaded, train_dataset, eval_dataset, losses, args,
                   trained, saved, exc>>

(* losses = {...} *)
BuildLosses ==
    /\ Runs("losses")
    /\ losses' = [k \in DOMAIN LossesItems |-> loss_objs[LossesItems[k]]]
    /\ defined' = defined \cup {"losses"}
    /\ pc' = NextStmt(pc)
    /\ UNCHANGED <<remote, loaded, loss_objs, train_dataset, eval_dataset,
                   args, trained, saved, exc>>

(* args = SentenceTransformerTrainingArguments(...) *)
BuildArgs ==
    /\ Runs("args")
    /\ args' = TrainingArguments
    /\ defined' = defined \cup {"args"}
    /\ pc' = NextStmt(pc)
    /\ UNCHANGED <<remote, loaded, loss_objs, train_dataset, eval_dataset,
                   losses, trained, saved, exc>>

(* trainer = SentenceTransformerTrainer(model=..., ..., args=args) *)
ConstructTrainer ==
    /\ Runs("trainer")
    /\ defined' = defined \cup {"trainer"}
    /\ pc' = NextStmt(pc)
    /\ UNCHANGED <<remote, loaded, loss_objs, train_dataset, eval_dataset,
                   losses, args, trained, saved, exc>>

(* trainer.train() *)
Train ==
    /\ Runs("train")
    /\ trained' = TRUE
    /\ pc' = NextStmt(pc)
    /\ UNCHANGED <<defined, remote, loaded, loss_objs, train_dataset,
                   eval_dataset, losses, args, saved, exc>>

(* model.save_pretrained("qwen-trained") *)
SavePretrained ==
    /\ Runs("save")
    /\ saved' = saved \cup {SavePath}
    /\ pc' = NextStmt(pc)
    /\ UNCHANGED <<defined, remote, loaded, loss_objs, train_dataset,
                   eval_dataset, losses, args, trained, exc>>

(* The statement raises: a library call fails, or a name it reads is       *)
(* unbound.  The statement binds nothing.                                  *)
Raise ==
    /\ pc \in Stmts
    /\ Calls(pc) \/ ~(Uses(pc) \subseteq defined)
    /\ exc' = pc
    /\ pc' = OnRaise(pc)
    /\ UNCHANGED <<defined, remote, loaded, loss_objs, train_dataset,
                   eval_dataset, losses, args, trained, saved>>

Next ==
    \/ LoadModel
    \/ \E v \in DatasetVars : LoadDataset(v)
    \/ BuildTrainDataset
    \/ BuildEvalDataset
    \/ \E v \in LossVars : ConstructLoss(v)
    \/ BuildLosses
    \/ BuildArgs
    \/ ConstructTrainer
    \/ Train
    \/ SavePretrained
    \/ Raise

Spec == Init /\ [][Next]_vars

----------------------------------------------------------------------------
(* Properties *)

Keys(d) == DOMAIN d

(* Statement s has run to its end. *)
Done(s) ==
    CASE s = "train" -> trained
      [] s = "save"  -> saved # {}
      [] OTHER       -> s \in defined

(* C1: when the trainer is constructed, every key of train_dataset is a    *)
(* key of losses.                                                          *)
C1_LossForEveryTrainKey ==
    (pc = "trainer" \/ "trainer" \in defined) =>
        \A k \in Keys(train_dataset) : k \in Keys(losses)

C1_Witness ==
    /\ "trainer" \in defined
    /\ "rules-synthetic" \in Keys(train_dataset)
    /\ "rules-synthetic" \in Keys(losses)

(* C3: every key of eval_dataset is a key of train_dataset.  The script    *)
(* breaks this with the key "all-nli-triplet".                             *)
C3_NoOrphanEvalKey ==
    ("eval_dataset" \in defined /\ "train_dataset" \in defined) =>
        \A k \in Keys(eval_dataset) : k \in Keys(train_dataset)

(* C4: every key of losses is a key of train_dataset. *)
C4_LossKeysAreTrainKeys ==
    ("losses" \in defined /\ "train_dataset" \in defined) =>
        \A k \in Keys(losses) : k \in Keys(train_dataset)

C4_Witness ==
    /\ "losses" \in defined
    /\ "train_dataset" \in defined
    /\ Cardinality(Keys(losses)) = 5

(* The stage of each statement in the order the specification gives:       *)
(* model load, dataset load, loss construction, loss mapping and           *)
(* configuration, trainer construction, training, persistence.             *)
StageOf(s) ==
    CASE s = "model" -> 1
      [] s \in DatasetVars \cup {"train_dataset", "eval_dataset"} -> 2
      [] s \in LossVars -> 3
      [] s \in {"losses", "args"} -> 4
      [] s = "trainer" -> 5
      [] s = "train" -> 6
      [] s = "save" -> 7

(* The statements of the stages before the stage of t. *)
EarlierStages == [t \in Stmts |-> {s \in Stmts : StageOf(s) < StageOf(t)}]

(* C7: a statement of a later stage has run, or is about to run, only if   *)
(* every statement of every earlier stage has run; the model is saved      *)
(* only after train() has returned; the trainer exists only once both      *)
(* dataset mappings, the loss mapping and the arguments do.                *)
C7_StageOrder ==
    /\ \A t \in Stmts :
          (Done(t) \/ pc = t) => \A s \in EarlierStages[t] : Done(s)
    /\ saved # {} => trained
    /\ "trainer" \in defined =>
          {"train_dataset", "eval_dataset", "losses", "args"} \subseteq defined

C7_Witness ==
    /\ pc = "done"
    /\ saved = {SavePath}
    /\ trained
    /\ "trainer" \in defined

(* C8: an exception at any statement ends the run: control is at           *)
(* "aborted", where no step is possible; neither the failed statement nor  *)
(* any later one has run, and nothing was saved.  A run that cannot step   *)
(* is either aborted with nothing saved or done with the model saved.      *)
C8_FailureTerminates ==
    /\ exc # "none" => pc = "aborted"
    /\ pc = "aborted" =>
          /\ exc \in Stmts
          /\ saved = {}
          /\ \A t \in Stmts : Index(t) >= Index(exc) => ~Done(t)
          /\ ~ENABLED Next
    /\ pc = "done" => (saved = {SavePath} /\ exc = "none")
    /\ pc \notin {"done", "aborted"} => ENABLED Next

C8_Witness ==
    /\ pc = "aborted"
    /\ exc = "train"
    /\ "trainer" \in defined

(* Two datasets read the same split of the same source. *)
SameSplit(a, b) == a.path = b.path /\ a.name = b.name /\ a.split = b.split

(* C10: a training dataset and an evaluation dataset cut from the same     *)
(* split of the same source share no row.                                  *)
C10_TrainEvalRowsDisjoint ==
    ("train_dataset" \in defined /\ "eval_dataset" \in defined) =>
        \A k \in Keys(train_dataset), e \in Keys(eval_dataset) :
            SameSplit(train_dataset[k], eval_dataset[e]) =>
                Rows(train_dataset[k]) \cap Rows(eval_dataset[e]) = {}

C10_Witness ==
    /\ "train_dataset" \in defined
    /\ "eval_dataset" \in defined
    /\ SameSplit(train_dataset["quora"], eval_dataset["quora"])
    /\ SameSplit(train_dataset["natural-questions"], eval_dataset["natural-questions"])
    /\ Cardinality(Rows(train_dataset["quora"])) = 10000
    /\ Rows(eval_dataset["quora"]) # {}
    /\ Rows(eval_dataset["natural-questions"]) # {}

====
